---- MODULE Spec2Model ----
(***************************************************************************)
(* A model of the accumulator-demo simulation: the miner of                *)
(* src/simulation/miner.rs (transaction pool, forge_block, validate_block  *)
(* and the three duties of Miner::start that share one Mutex) and the user *)
(* of src/simulation/user.rs.                                              *)
(*                                                                         *)
(* The accumulator library, util::elems_from_transactions, the bridge and  *)
(* the broadcast channels are not part of the two source files; they are   *)
(* modelled from the interface description (sections 4.1 and 6 of the      *)
(* specification):                                                         *)
(*   - an accumulator is the set of elements it commits to;                *)
(*   - the witness of element u in accumulator a is a without u;           *)
(*   - a membership proof is its witness plus a proof of exponentiation,   *)
(*     modelled by the statement <<base, exponent, result>> it proves;     *)
(*   - a channel is the set of messages published so far, any of which a   *)
(*     subscriber may receive, in any order, any number of times.          *)
(*                                                                         *)
(* Specifications: Spec (the miners, one step per call under the Mutex),   *)
(* SpecLock (the same with the Mutex and the assignments of validate_block *)
(* as separate steps), SpecUser (users, bridge and transport), and three   *)
(* specifications with fairness for the progress properties:               *)
(* SpecWitnessFair (the witness loop of the users), SpecBlocksFair (block  *)
(* forging and delivery) and SpecLeaderFair (the duties of the leader).    *)
(***************************************************************************)
EXTENDS Naturals, Sequences, FiniteSets, TLC

\* ------------------------------------------------------------------ bounds
MaxTxs == 2
MaxBlocks == 3
MaxRounds == 2
MaxQueue == 1

Miners == {1, 2}

Users == {1, 2}

\* state::Utxo
Utxo(id, user_id) == [id |-> id, user_id |-> user_id]

\* The accumulator every miner is started with (the acc argument of start).
Genesis == {Utxo(1, 1)}

Duties == {"tx", "validate", "forge"}

VARIABLES
    is_leader,             \* [Miners -> BOOLEAN], the is_leader argument of start
    acc,                   \* [Miners -> SUBSET Nat], Miner.acc
    block_height,          \* [Miners -> Nat], Miner.block_height
    pending_transactions,  \* [Miners -> Seq(Transaction)], Miner.pending_transactions
    poisoned,              \* [Miners -> BOOLEAN], the Mutex of a miner is poisoned
    alive,                 \* [Miners -> SUBSET Duties], the threads still running
    tx_channel,            \* transactions published on the transaction channel
    block_channel,         \* blocks published on the block channel
    next_id,               \* the next fresh output identifier (Uuid::new_v4)
    accepted,              \* history: [Miners -> Seq(Block)], blocks accepted, in order
    last,                  \* history: the last operation, its argument and pre-state
    utxo_set,              \* [Users -> SUBSET Utxo], User.utxo_set
    pc,                    \* [Users -> STRING], where a user is in the loop of start
    utxos_to_spend,        \* [Users -> Seq(Utxo)], utxos_to_spend of the round
    witness_request_id,    \* [Users -> Nat], witness_request_id of the round
    response,              \* [Users -> WitnessResponse], the response of the round
    response_queue,        \* [Users -> Seq(WitnessResponse)], witness_response_receiver
    update_queue,          \* [Users -> Seq(UserUpdate)], user_update_receiver
    request_channel,       \* witness requests published
    response_channel,      \* witness responses the bridge published
    update_channel,        \* [Users -> updates the bridge published for the user]
    bridge_acc,            \* the accumulator the bridge computes witnesses against
    next_request_id,       \* the next fresh correlation id (Uuid::new_v4)
    confirmed,             \* history: transactions included in an accepted block
    my_tx,                 \* history: [Users -> the transaction the user issued last]
    resent,                \* history: [Users -> the request of the round was resent]
    lock,                  \* [Miners -> SUBSET Duties], the duties holding the Mutex
    vpc,                   \* [Miners -> STRING], where validate_block is in its assignments
    vblock,                \* [Miners -> Block], the block validate_block is applying
    received               \* history: [Miners -> blocks and transactions received]

miner_vars == <<is_leader, acc, block_height, pending_transactions, poisoned, alive,
                block_channel, accepted, last>>

user_vars == <<utxo_set, pc, utxos_to_spend, witness_request_id, response,
               response_queue, update_queue, request_channel, response_channel,
               update_channel, bridge_acc, next_request_id, confirmed, my_tx, resent>>

thread_vars == <<lock, vpc, vblock, received>>

vars == <<miner_vars, user_vars, tx_channel, next_id, thread_vars>>

\* ------------------------------------------------------------- sequences
SeqToSet(s) == {s[i] : i \in 1..Len(s)}

Contains(s, x) == \E i \in 1..Len(s) : s[i] = x

RECURSIVE Flatten(_)
Flatten(ss) == IF ss = <<>> THEN <<>> ELSE Head(ss) \o Flatten(Tail(ss))

\* ----------------------------------------------- accumulator capability
NoProof == [witness |-> {}, poe |-> <<{}, {}, {}>>]

\* witness w attests u in accumulator a
verify_witness(a, u, w) == u \notin w /\ w \cup {u} = a

\* Accumulator::delete_with_proof
delete_with_proof(a, elem_witnesses) ==
    LET D == {ew[1] : ew \in SeqToSet(elem_witnesses)}
    IN  IF \A ew \in SeqToSet(elem_witnesses) : verify_witness(a, ew[1], ew[2])
        THEN [ok |-> TRUE, acc |-> a \ D,
              proof |-> [witness |-> a \ D, poe |-> <<a \ D, D, a>>]]
        ELSE [ok |-> FALSE, acc |-> a, proof |-> NoProof]

\* Accumulator::add_with_proof
add_with_proof(a, elems) ==
    LET A == SeqToSet(elems)
    IN  [acc |-> a \cup A,
         proof |-> [witness |-> a, poe |-> <<a, A, a \cup A>>]]

\* Accumulator::verify_membership_batch
verify_membership_batch(a, elems, proof) ==
    proof.poe = <<proof.witness, SeqToSet(elems), a>>

\* util::elems_from_transactions
elems_from_transactions(txs) ==
    [added   |-> Flatten([i \in 1..Len(txs) |-> txs[i].utxos_created]),
     deleted |-> Flatten([i \in 1..Len(txs) |-> txs[i].utxos_spent_with_witnesses])]

\* ------------------------------------------------------------ the miner
NoTx == [utxos_created |-> <<>>, utxos_spent_with_witnesses |-> <<>>]

NoBlock == [height |-> 0, transactions |-> <<>>, acc_new |-> {},
            proof_added |-> NoProof, proof_deleted |-> NoProof]

\* add_transaction without the `contains` test
add_transaction_always_push(pool, transaction) == Append(pool, transaction)

\* Miner::add_transaction
add_transaction(pool, transaction) ==
    IF ~Contains(pool, transaction) THEN Append(pool, transaction) ELSE pool

\* forge_block that adds to self.acc instead of the post-deletion accumulator
forge_block_add_to_self(m) ==
    LET e   == elems_from_transactions(pending_transactions[m])
        del == delete_with_proof(acc[m], e.deleted)
        add == add_with_proof(acc[m], e.added)
    IN  IF ~del.ok
        THEN [ok |-> FALSE, block |-> NoBlock]
        ELSE [ok |-> TRUE,
              block |-> [height |-> block_height[m] + 1,
                         transactions |-> pending_transactions[m],
                         acc_new |-> add.acc,
                         proof_added |-> add.proof,
                         proof_deleted |-> del.proof]]

\* forge_block that does not propagate the error of delete_with_proof
forge_block_ignore_error(m) ==
    LET e   == elems_from_transactions(pending_transactions[m])
        del == delete_with_proof(acc[m], e.deleted)
        add == add_with_proof(del.acc, e.added)
    IN  [ok |-> TRUE,
         block |-> [height |-> block_height[m] + 1,
                    transactions |-> pending_transactions[m],
                    acc_new |-> add.acc,
                    proof_added |-> add.proof,
                    proof_deleted |-> del.proof]]

\* Miner::forge_block, on the state of miner m
forge_block(m) ==
    LET e   == elems_from_transactions(pending_transactions[m])
        del == delete_with_proof(acc[m], e.deleted)
        add == add_with_proof(del.acc, e.added)
    IN  IF ~del.ok
        THEN [ok |-> FALSE, block |-> NoBlock]
        ELSE [ok |-> TRUE,
              block |-> [height |-> block_height[m] + 1,
                         transactions |-> pending_transactions[m],
                         acc_new |-> add.acc,
                         proof_added |-> add.proof,
                         proof_deleted |-> del.proof]]

\* height gates that let blocks further ahead, or replayed blocks, through
height_gate_ahead(height, current) == height <= current

height_gate_replay(height, current) == height > current + 1

\* The height gate of Miner::validate_block: TRUE when the block is skipped
height_gate(height, current) == height # current + 1

\* the assertions without the one on proof_deleted
checks_pass_no_deleted(a, block) ==
    LET e == elems_from_transactions(block.transactions)
    IN  /\ verify_membership_batch(block.acc_new, e.added, block.proof_added)
        /\ block.proof_deleted.witness = block.proof_added.witness

\* The three assertions of Miner::validate_block
checks_pass(a, block) ==
    LET e == elems_from_transactions(block.transactions)
        elems_deleted == [i \in 1..Len(e.deleted) |-> e.deleted[i][1]]
    IN  /\ verify_membership_batch(a, elems_deleted, block.proof_deleted)
        /\ verify_membership_batch(block.acc_new, e.added, block.proof_added)
        /\ block.proof_deleted.witness = block.proof_added.witness

\* validate_block with the assertions evaluated before the height gate
validate_outcome_checks_first(m, block) ==
    IF ~checks_pass(acc[m], block) THEN "panic"
    ELSE IF height_gate(block.height, block_height[m]) THEN "skip"
    ELSE "accept"

\* validate_block with the assertions compiled out
validate_outcome_no_asserts(m, block) ==
    IF height_gate(block.height, block_height[m]) THEN "skip" ELSE "accept"

\* Miner::validate_block: what happens to block on miner m
validate_outcome(m, block) ==
    IF height_gate(block.height, block_height[m]) THEN "skip"
    ELSE IF ~checks_pass(acc[m], block) THEN "panic"
    ELSE "accept"

\* The state of miner m that the Mutex guards
MinerState(m) == [acc |-> acc[m], block_height |-> block_height[m],
                  pending_transactions |-> pending_transactions[m]]

\* The assignments that end Miner::validate_block when the block is accepted
apply_block(m, block) ==
    [acc |-> block.acc_new, block_height |-> block.height,
     pending_transactions |-> <<>>]

Event(op, m, outcome, tx, block) ==
    [op |-> op, miner |-> m, outcome |-> outcome, tx |-> tx, block |-> block,
     pre |-> MinerState(m)]

\* ------------------------------------------------------------- the user
\* The init_utxo argument of User::start
init_utxo(u) == Utxo(u, u)

NoResponse == [request_id |-> 0, utxos_with_witnesses |-> <<>>]

EmptyUpdate == [utxos_added |-> <<>>, utxos_deleted |-> <<>>]

\* UserUpdate::is_empty
is_empty(upd) == upd.utxos_added = <<>> /\ upd.utxos_deleted = <<>>

\* an update that inserts the added outputs and removes none
update_insert_only(set, upd) == set \cup SeqToSet(upd.utxos_added)

\* User::update
update(set, upd) == (set \ SeqToSet(upd.utxos_deleted)) \cup SeqToSet(upd.utxos_added)

\* a response test that takes any response
response_matches_any(resp, id) == resp.request_id # 0

\* The test of User::start on a received response
response_matches(resp, id) == resp.request_id = id

\* The WitnessRequest a user sends in its current round
WitnessRequest(u) ==
    [user_id |-> u, request_id |-> witness_request_id[u], utxos |-> utxos_to_spend[u]]

\* ----------------------------------------------------------------- Init
Init ==
    /\ is_leader \in {[m \in Miners |-> m = 1], [m \in Miners |-> TRUE]}
    /\ acc = [m \in Miners |-> Genesis]
    /\ block_height = [m \in Miners |-> 0]
    /\ pending_transactions = [m \in Miners |-> <<>>]
    /\ poisoned = [m \in Miners |-> FALSE]
    /\ alive = [m \in Miners |-> IF is_leader[m] THEN Duties ELSE {"tx", "validate"}]
    /\ tx_channel = {}
    /\ block_channel = {}
    /\ next_id = Cardinality(Users) + 1
    /\ accepted = [m \in Miners |-> <<>>]
    /\ last = Event("init", 1, "none", NoTx, NoBlock)
    /\ utxo_set = [u \in Users |-> {init_utxo(u)}]
    /\ pc = [u \in Users |-> "select"]
    /\ utxos_to_spend = [u \in Users |-> <<>>]
    /\ witness_request_id = [u \in Users |-> 0]
    /\ response = [u \in Users |-> NoResponse]
    /\ response_queue = [u \in Users |-> <<>>]
    /\ update_queue = [u \in Users |-> <<>>]
    /\ request_channel = {}
    /\ response_channel = {}
    /\ update_channel = [u \in Users |-> {}]
    /\ bridge_acc = {init_utxo(u) : u \in Users}
    /\ next_request_id = 1
    /\ confirmed = {}
    /\ my_tx = [u \in Users |-> NoTx]
    /\ resent = [u \in Users |-> FALSE]
    /\ lock = [m \in Miners |-> {}]
    /\ vpc = [m \in Miners |-> "idle"]
    /\ vblock = [m \in Miners |-> NoBlock]
    /\ received = [m \in Miners |-> {}]

\* ------------------------------------------------------------- actions
\* Outputs already spent by a published transaction
SpentByPublished ==
    {sw[1] : sw \in UNION {SeqToSet(t.utxos_spent_with_witnesses) : t \in tx_channel}}

\* A user spends output u with the witness the bridge computed against the
\* accumulator of miner src, creates n fresh outputs and broadcasts the
\* transaction (user.rs, rounds of User::start, seen from the miners).
SubmitTransaction(src, u, n) ==
    /\ Cardinality(tx_channel) < MaxTxs
    /\ u \in acc[src]
    /\ u \notin SpentByPublished
    /\ LET t == [utxos_created |-> [i \in 1..n |-> Utxo(next_id + i - 1, u.user_id)],
                 utxos_spent_with_witnesses |-> << <<u, acc[src] \ {u}>> >>]
       IN  /\ tx_channel' = tx_channel \cup {t}
           /\ last' = Event("submit", src, "sent", t, NoBlock)
    /\ next_id' = next_id + n
    /\ UNCHANGED <<is_leader, acc, block_height, pending_transactions, poisoned,
                   alive, block_channel, accepted>>
    /\ UNCHANGED <<user_vars, thread_vars>>

\* One pass of the transaction processor thread of miner m with t received
TransactionThread(m, t) ==
    /\ "tx" \in alive[m]
    /\ t \in tx_channel
    /\ IF poisoned[m]
       THEN /\ alive' = [alive EXCEPT ![m] = @ \ {"tx"}]
            /\ last' = Event("add", m, "panic", t, NoBlock)
            /\ UNCHANGED pending_transactions
       ELSE /\ pending_transactions' =
                   [pending_transactions EXCEPT ![m] = add_transaction(@, t)]
            /\ last' = Event("add", m,
                             IF Contains(pending_transactions[m], t)
                             THEN "duplicate" ELSE "pushed", t, NoBlock)
            /\ UNCHANGED alive
    /\ UNCHANGED <<is_leader, acc, block_height, poisoned, tx_channel,
                   block_channel, next_id, accepted>>
    /\ UNCHANGED <<user_vars, lock, vpc, vblock>>

\* The transaction processor thread of miner m receives t
AddTransaction(m, t) ==
    /\ TransactionThread(m, t)
    /\ UNCHANGED received

\* The same, with the delivery of t to miner m recorded
ReceiveTransaction(m, t) ==
    /\ TransactionThread(m, t)
    /\ received' = [received EXCEPT ![m] = @ \cup {t}]

\* a block creation loop that unwraps the result of forge_block
after_forge_unwrap(r, duties) == IF r.ok THEN duties ELSE duties \ {"forge"}

\* The duties of a leader after forge_block returned r: the block is sent or
\* the failure is printed, and the loop goes on
after_forge(r, duties) == duties

\* One tick of the block creation loop of leader m
ForgeBlock(m) ==
    /\ is_leader[m]
    /\ "forge" \in alive[m]
    /\ IF poisoned[m]
       THEN /\ alive' = [alive EXCEPT ![m] = @ \ {"forge"}]
            /\ last' = Event("forge", m, "panic", NoTx, NoBlock)
            /\ UNCHANGED block_channel
       ELSE LET r == forge_block(m)
            IN  /\ r.ok => \/ r.block \in block_channel
                           \/ Cardinality(block_channel) < MaxBlocks
                /\ block_channel' = IF r.ok THEN block_channel \cup {r.block}
                                    ELSE block_channel
                /\ last' = Event("forge", m, IF r.ok THEN "ok" ELSE "err",
                                 NoTx, r.block)
                /\ alive' = [alive EXCEPT ![m] = after_forge(r, @)]
    /\ UNCHANGED <<is_leader, acc, block_height, pending_transactions, poisoned,
                   tx_channel, next_id, accepted>>
    /\ UNCHANGED <<user_vars, thread_vars>>

\* One pass of the block validation thread of miner m with block received
ValidationThread(m, block) ==
    /\ "validate" \in alive[m]
    /\ block \in block_channel
    /\ LET outcome == validate_outcome(m, block)
       IN  /\ last' = Event("validate", m, outcome, NoTx, block)
           /\ CASE outcome = "skip" ->
                     UNCHANGED <<acc, block_height, pending_transactions,
                                 poisoned, alive, accepted>>
                [] outcome = "panic" ->
                     /\ poisoned' = [poisoned EXCEPT ![m] = TRUE]
                     /\ alive' = [alive EXCEPT ![m] = @ \ {"validate"}]
                     /\ UNCHANGED <<acc, block_height, pending_transactions,
                                    accepted>>
                [] outcome = "accept" ->
                     /\ acc' = [acc EXCEPT ![m] = apply_block(m, block).acc]
                     /\ block_height' =
                            [block_height EXCEPT ![m] = apply_block(m, block).block_height]
                     /\ pending_transactions' =
                            [pending_transactions EXCEPT ![m] =
                                 apply_block(m, block).pending_transactions]
                     /\ accepted' = [accepted EXCEPT ![m] = Append(@, block)]
                     /\ UNCHANGED <<poisoned, alive>>
    /\ UNCHANGED <<is_leader, tx_channel, block_channel, next_id>>
    /\ UNCHANGED <<user_vars, lock, vpc, vblock>>

\* The block validation thread of miner m receives block
ValidateBlock(m, block) ==
    /\ ValidationThread(m, block)
    /\ UNCHANGED received

\* The same, with the delivery of block to miner m recorded
ReceiveBlock(m, block) ==
    /\ ValidationThread(m, block)
    /\ received' = [received EXCEPT ![m] = @ \cup {block}]

\* ------------------------------------------- the duties under the Mutex
\* a lock that is granted while another duty holds it
may_enter_always(holders) == TRUE

\* Mutex::lock of the three duties: granted when no duty holds the lock
may_enter(holders) == holders = {}

\* The transaction processor takes the lock, pushes t and releases the lock
LockAddTransaction(m, t) ==
    /\ may_enter(lock[m])
    /\ AddTransaction(m, t)

\* The leader takes the lock, reads the state in forge_block and releases
LockForgeBlock(m) ==
    /\ may_enter(lock[m])
    /\ ForgeBlock(m)

\* The validation thread takes the lock and runs validate_block up to its
\* assignments: a skipped block or a failed assertion ends the call and
\* gives up the lock, an accepted block is applied in the next three steps
LockValidateBlock(m, block) ==
    /\ vpc[m] = "idle"
    /\ may_enter(lock[m])
    /\ IF validate_outcome(m, block) = "accept"
       THEN /\ "validate" \in alive[m]
            /\ block \in block_channel
            /\ lock' = [lock EXCEPT ![m] = @ \cup {"validate"}]
            /\ vpc' = [vpc EXCEPT ![m] = "acc"]
            /\ vblock' = [vblock EXCEPT ![m] = block]
            /\ accepted' = [accepted EXCEPT ![m] = Append(@, block)]
            /\ last' = Event("validate", m, "accept", NoTx, block)
            /\ UNCHANGED <<is_leader, acc, block_height, pending_transactions,
                           poisoned, alive, block_channel, tx_channel, next_id,
                           received>>
            /\ UNCHANGED user_vars
       ELSE ValidateBlock(m, block)

\* self.acc = block.acc_new.clone()
AssignAcc(m) ==
    /\ vpc[m] = "acc"
    /\ acc' = [acc EXCEPT ![m] = apply_block(m, vblock[m]).acc]
    /\ vpc' = [vpc EXCEPT ![m] = "height"]
    /\ UNCHANGED <<is_leader, block_height, pending_transactions, poisoned, alive,
                   block_channel, accepted, last, tx_channel, next_id, lock,
                   vblock, received>>
    /\ UNCHANGED user_vars

\* self.block_height = block.height
AssignHeight(m) ==
    /\ vpc[m] = "height"
    /\ block_height' =
           [block_height EXCEPT ![m] = apply_block(m, vblock[m]).block_height]
    /\ vpc' = [vpc EXCEPT ![m] = "pool"]
    /\ UNCHANGED <<is_leader, acc, pending_transactions, poisoned, alive,
                   block_channel, accepted, last, tx_channel, next_id, lock,
                   vblock, received>>
    /\ UNCHANGED user_vars

\* self.pending_transactions.clear(), and the lock guard is dropped
ClearPool(m) ==
    /\ vpc[m] = "pool"
    /\ pending_transactions' =
           [pending_transactions EXCEPT ![m] =
                apply_block(m, vblock[m]).pending_transactions]
    /\ vpc' = [vpc EXCEPT ![m] = "idle"]
    /\ lock' = [lock EXCEPT ![m] = @ \ {"validate"}]
    /\ UNCHANGED <<is_leader, acc, block_height, poisoned, alive, block_channel,
                   accepted, last, tx_channel, next_id, vblock, received>>
    /\ UNCHANGED user_vars

\* ------------------------------------------------------- user actions
\* A round starts: the user picks an output and a fresh correlation id
SelectInput(u, utxo) ==
    /\ pc[u] = "select"
    /\ next_request_id <= MaxRounds
    /\ utxo \in utxo_set[u]
    /\ utxos_to_spend' = [utxos_to_spend EXCEPT ![u] = <<utxo>>]
    /\ witness_request_id' = [witness_request_id EXCEPT ![u] = next_request_id]
    /\ next_request_id' = next_request_id + 1
    /\ resent' = [resent EXCEPT ![u] = FALSE]
    /\ pc' = [pc EXCEPT ![u] = "request"]
    /\ UNCHANGED <<utxo_set, response, response_queue, update_queue,
                   request_channel, response_channel, update_channel, bridge_acc,
                   confirmed, my_tx, tx_channel, next_id>>
    /\ UNCHANGED <<miner_vars, thread_vars>>

\* The user sends the witness request of the round
SendRequest(u) ==
    /\ pc[u] = "request"
    /\ request_channel' = request_channel \cup {WitnessRequest(u)}
    /\ pc' = [pc EXCEPT ![u] = "receive"]
    /\ UNCHANGED <<utxo_set, utxos_to_spend, witness_request_id, response,
                   response_queue, update_queue, response_channel, update_channel,
                   bridge_acc, next_request_id, confirmed, my_tx, resent,
                   tx_channel, next_id>>
    /\ UNCHANGED <<miner_vars, thread_vars>>

\* The user receives a response and compares its request_id
ReceiveResponse(u) ==
    /\ pc[u] = "receive"
    /\ response_queue[u] # <<>>
    /\ response_queue' = [response_queue EXCEPT ![u] = Tail(@)]
    /\ IF response_matches(Head(response_queue[u]), witness_request_id[u])
       THEN /\ response' = [response EXCEPT ![u] = Head(response_queue[u])]
            /\ pc' = [pc EXCEPT ![u] = "issue"]
       ELSE /\ pc' = [pc EXCEPT ![u] = "drain"]
            /\ UNCHANGED response
    /\ UNCHANGED <<utxo_set, utxos_to_spend, witness_request_id, update_queue,
                   request_channel, response_channel, update_channel, bridge_acc,
                   next_request_id, confirmed, my_tx, resent, tx_channel, next_id>>
    /\ UNCHANGED <<miner_vars, thread_vars>>

\* One try_recv of the drain loop: a response is thrown away, or the queue is
\* empty and the user goes back to sending the request
DrainResponse(u) ==
    /\ pc[u] = "drain"
    /\ IF response_queue[u] # <<>>
       THEN /\ response_queue' = [response_queue EXCEPT ![u] = Tail(@)]
            /\ UNCHANGED <<pc, resent>>
       ELSE /\ pc' = [pc EXCEPT ![u] = "request"]
            /\ resent' = [resent EXCEPT ![u] = TRUE]
            /\ UNCHANGED response_queue
    /\ UNCHANGED <<utxo_set, utxos_to_spend, witness_request_id, response,
                   update_queue, request_channel, response_channel, update_channel,
                   bridge_acc, next_request_id, confirmed, my_tx, tx_channel, next_id>>
    /\ UNCHANGED <<miner_vars, thread_vars>>

\* The user creates num outputs and broadcasts the transaction
IssueTransaction(u, num) ==
    /\ pc[u] = "issue"
    /\ LET new_trans ==
               [utxos_created |-> [i \in 1..num |-> Utxo(next_id + i - 1, u)],
                utxos_spent_with_witnesses |-> response[u].utxos_with_witnesses]
       IN  /\ tx_channel' = tx_channel \cup {new_trans}
           /\ my_tx' = [my_tx EXCEPT ![u] = new_trans]
    /\ next_id' = next_id + num
    /\ pc' = [pc EXCEPT ![u] = "confirm"]
    /\ UNCHANGED <<utxo_set, utxos_to_spend, witness_request_id, response,
                   response_queue, update_queue, request_channel, response_channel,
                   update_channel, bridge_acc, next_request_id, confirmed, resent>>
    /\ UNCHANGED <<miner_vars, thread_vars>>

\* The user receives an update: an empty one is skipped, another one is
\* applied and ends the round
ReceiveUpdate(u) ==
    /\ pc[u] = "confirm"
    /\ update_queue[u] # <<>>
    /\ update_queue' = [update_queue EXCEPT ![u] = Tail(@)]
    /\ IF ~is_empty(Head(update_queue[u]))
       THEN /\ utxo_set' = [utxo_set EXCEPT ![u] = update(@, Head(update_queue[u]))]
            /\ pc' = [pc EXCEPT ![u] = "select"]
       ELSE UNCHANGED <<utxo_set, pc>>
    /\ UNCHANGED <<utxos_to_spend, witness_request_id, response, response_queue,
                   request_channel, response_channel, update_channel, bridge_acc,
                   next_request_id, confirmed, my_tx, resent, tx_channel, next_id>>
    /\ UNCHANGED <<miner_vars, thread_vars>>

\* ---------------------------------------- the bridge and the transport
\* The bridge answers a request with the witnesses of the outputs it names
BridgeRespond(req) ==
    /\ req \in request_channel
    /\ LET resp == [request_id |-> req.request_id,
                    utxos_with_witnesses |->
                        [i \in 1..Len(req.utxos) |->
                             <<req.utxos[i], bridge_acc \ {req.utxos[i]}>>]]
       IN  /\ resp \notin response_channel
           /\ response_channel' = response_channel \cup {resp}
    /\ UNCHANGED <<utxo_set, pc, utxos_to_spend, witness_request_id, response,
                   response_queue, update_queue, request_channel, update_channel,
                   bridge_acc, next_request_id, confirmed, my_tx, resent,
                   tx_channel, next_id>>
    /\ UNCHANGED <<miner_vars, thread_vars>>

\* A published response reaches the receiver of user u
DeliverResponse(u, resp) ==
    /\ resp \in response_channel
    /\ Len(response_queue[u]) < MaxQueue
    /\ response_queue' = [response_queue EXCEPT ![u] = Append(@, resp)]
    /\ UNCHANGED <<utxo_set, pc, utxos_to_spend, witness_request_id, response,
                   update_queue, request_channel, response_channel, update_channel,
                   bridge_acc, next_request_id, confirmed, my_tx, resent,
                   tx_channel, next_id>>
    /\ UNCHANGED <<miner_vars, thread_vars>>

\* The update the bridge addresses to user v for a block holding transaction t
UpdateFor(v, t) ==
    [utxos_added |-> SelectSeq(t.utxos_created, LAMBDA x : x.user_id = v),
     utxos_deleted |->
         SelectSeq([i \in 1..Len(t.utxos_spent_with_witnesses) |->
                        t.utxos_spent_with_witnesses[i][1]],
                   LAMBDA x : x.user_id = v)]

\* The miners accept a block holding transaction t and the bridge publishes
\* the updates of that block
BridgeConfirm(t) ==
    /\ t \in tx_channel \ confirmed
    /\ \A ew \in SeqToSet(t.utxos_spent_with_witnesses) :
           verify_witness(bridge_acc, ew[1], ew[2])
    /\ bridge_acc' = (bridge_acc \ {ew[1] : ew \in SeqToSet(t.utxos_spent_with_witnesses)})
                        \cup SeqToSet(t.utxos_created)
    /\ confirmed' = confirmed \cup {t}
    /\ update_channel' = [v \in Users |-> update_channel[v] \cup {UpdateFor(v, t)}]
    /\ UNCHANGED <<utxo_set, pc, utxos_to_spend, witness_request_id, response,
                   response_queue, update_queue, request_channel, response_channel,
                   next_request_id, my_tx, resent, tx_channel, next_id>>
    /\ UNCHANGED <<miner_vars, thread_vars>>

\* A published update reaches the receiver of user u
DeliverUpdate(u, upd) ==
    /\ upd \in update_channel[u]
    /\ Len(update_queue[u]) < MaxQueue
    /\ update_queue' = [update_queue EXCEPT ![u] = Append(@, upd)]
    /\ UNCHANGED <<utxo_set, pc, utxos_to_spend, witness_request_id, response,
                   response_queue, request_channel, response_channel, update_channel,
                   bridge_acc, next_request_id, confirmed, my_tx, resent,
                   tx_channel, next_id>>
    /\ UNCHANGED <<miner_vars, thread_vars>>

Next ==
    \/ \E src \in Miners : \E u \in acc[src], n \in 1..2 :
           SubmitTransaction(src, u, n)
    \/ \E m \in Miners, t \in tx_channel : AddTransaction(m, t)
    \/ \E m \in Miners : ForgeBlock(m)
    \/ \E m \in Miners, b \in block_channel : ValidateBlock(m, b)

Spec == Init /\ [][Next]_vars

\* The users, the bridge and the transport, with the miners seen through the bridge
InitUser == Init /\ is_leader = [m \in Miners |-> m = 1]

NextUser ==
    \/ \E u \in Users : \E utxo \in utxo_set[u] : SelectInput(u, utxo)
    \/ \E u \in Users : SendRequest(u)
    \/ \E u \in Users : ReceiveResponse(u)
    \/ \E u \in Users : DrainResponse(u)
    \/ \E u \in Users, num \in 1..2 : IssueTransaction(u, num)
    \/ \E u \in Users : ReceiveUpdate(u)
    \/ \E req \in request_channel : BridgeRespond(req)
    \/ \E u \in Users, resp \in response_channel : DeliverResponse(u, resp)
    \/ \E t \in tx_channel : BridgeConfirm(t)
    \/ \E u \in Users : \E upd \in update_channel[u] : DeliverUpdate(u, upd)

SpecUser == InitUser /\ [][NextUser]_vars

\* The witness loop of the users: rounds up to the broadcast of the
\* transaction, with the bridge answering and the transport delivering
NextWitness ==
    \/ \E u \in Users : \E utxo \in utxo_set[u] : SelectInput(u, utxo)
    \/ \E u \in Users : SendRequest(u)
    \/ \E u \in Users : ReceiveResponse(u)
    \/ \E u \in Users : DrainResponse(u)
    \/ \E u \in Users, num \in 1..2 : IssueTransaction(u, num)
    \/ \E req \in request_channel : BridgeRespond(req)
    \/ \E u \in Users, resp \in response_channel : DeliverResponse(u, resp)

\* Fair scheduling and reliable delivery: a user thread that can take its
\* next step takes it, every request is answered, and every published
\* response reaches every user again and again when its queue has room
FairWitness ==
    /\ \A u \in Users :
          /\ WF_vars(\E utxo \in utxo_set[u] : SelectInput(u, utxo))
          /\ WF_vars(SendRequest(u))
          /\ WF_vars(ReceiveResponse(u))
          /\ WF_vars(DrainResponse(u))
          /\ WF_vars(\E num \in 1..2 : IssueTransaction(u, num))
    /\ \A i \in 1..MaxRounds :
          WF_vars(\E req \in request_channel :
                      req.request_id = i /\ BridgeRespond(req))
    /\ \A u \in Users, i \in 1..MaxRounds :
          SF_vars(\E resp \in response_channel :
                      resp.request_id = i /\ DeliverResponse(u, resp))

SpecWitnessFair == InitUser /\ [][NextWitness]_vars /\ FairWitness

\* The block channel delivers every published message to every subscriber
\* at least once; a further delivery of the same message may happen but is
\* not promised. The two specifications below record every delivery.
\*
\* The block duties of the miners: the leader forges on its interval and the
\* validation threads receive the blocks, with no transaction under way
NextBlocks ==
    \/ \E m \in Miners : ForgeBlock(m)
    \/ \E m \in Miners, b \in block_channel : ReceiveBlock(m, b)

\* Fair scheduling and reliable delivery: the leader's loop keeps ticking
\* and every published block reaches every validation thread once
FairBlocks ==
    \A m \in Miners :
        /\ WF_vars(ForgeBlock(m))
        /\ WF_vars(\E b \in block_channel \ received[m] : ReceiveBlock(m, b))

SpecBlocksFair == InitUser /\ [][NextBlocks]_vars /\ FairBlocks

\* The three duties of the leader. A miner that is no leader publishes
\* nothing, so the leader's state does not depend on the steps of the others.
NextLeader ==
    \/ \E src \in Miners : \E u \in acc[src], n \in 1..2 :
           SubmitTransaction(src, u, n)
    \/ \E m \in Miners, t \in tx_channel : is_leader[m] /\ ReceiveTransaction(m, t)
    \/ \E m \in Miners : ForgeBlock(m)
    \/ \E m \in Miners, b \in block_channel : is_leader[m] /\ ReceiveBlock(m, b)

\* Fair scheduling and reliable delivery for the leader: its loop keeps
\* ticking and every published transaction and block reaches it once
FairLeader ==
    \A m \in Miners :
        /\ WF_vars(ForgeBlock(m))
        /\ WF_vars(\E t \in tx_channel \ received[m] :
                       is_leader[m] /\ ReceiveTransaction(m, t))
        /\ WF_vars(\E b \in block_channel \ received[m] :
                       is_leader[m] /\ ReceiveBlock(m, b))

SpecLeaderFair == InitUser /\ [][NextLeader]_vars /\ FairLeader

\* The miners with the steps of validate_block and the Mutex made visible
NextLock ==
    \/ \E src \in Miners : \E u \in acc[src], n \in 1..2 :
           SubmitTransaction(src, u, n)
    \/ \E m \in Miners, t \in tx_channel : LockAddTransaction(m, t)
    \/ \E m \in Miners : LockForgeBlock(m)
    \/ \E m \in Miners, b \in block_channel : LockValidateBlock(m, b)
    \/ \E m \in Miners : AssignAcc(m)
    \/ \E m \in Miners : AssignHeight(m)
    \/ \E m \in Miners : ClearPool(m)

SpecLock == InitUser /\ [][NextLock]_vars

\* ================================================================ claims
Last(s) == s[Len(s)]

BlockCreated(b) == SeqToSet(elems_from_transactions(b.transactions).added)

BlockSpent(b) ==
    {ew[1] : ew \in SeqToSet(elems_from_transactions(b.transactions).deleted)}

\* The accumulator a block was forged from (the result its deletion proof proves)
ForgeAcc(b) == b.proof_deleted.poe[3]

\* Miner m holds a pooled transaction whose witness does not verify against acc[m]
HasBadWitness(m) ==
    \E t \in SeqToSet(pending_transactions[m]) :
        \E ew \in SeqToSet(t.utxos_spent_with_witnesses) :
            ~verify_witness(acc[m], ew[1], ew[2])

Validated == last.op = "validate"

\* C1: the blocks a miner accepts have the heights 1, 2, 3, ... in order;
\* an acceptance raises block_height by exactly 1 and nothing else changes it.
C1_HeightsSequential ==
    /\ \A m \in Miners :
           /\ block_height[m] = Len(accepted[m])
           /\ \A i \in 1..Len(accepted[m]) : accepted[m][i].height = i
    /\ last.op # "init" =>
           block_height[last.miner] =
               IF Validated /\ last.outcome = "accept"
               THEN last.pre.block_height + 1 ELSE last.pre.block_height

\* a miner at height >= 2 has just been handed a block it accepted before
C1_Witness ==
    /\ Validated /\ last.outcome = "skip"
    /\ block_height[last.miner] >= 2
    /\ Contains(accepted[last.miner], last.block)

\* C2: validate_block on a block whose height is not block_height + 1 returns
\* at the gate: accumulator, height and pool are as before, no assertion ran.
C2_WrongHeightNoEffect ==
    (Validated /\ last.block.height # last.pre.block_height + 1) =>
        /\ last.outcome = "skip"
        /\ MinerState(last.miner) = last.pre
        /\ ~poisoned[last.miner]

\* a skipped block, more than one ahead, on which the assertions would fail
C2_Witness ==
    /\ Validated /\ last.outcome = "skip"
    /\ last.block.height > last.pre.block_height + 1
    /\ ~checks_pass(last.pre.acc, last.block)
    /\ last.pre.pending_transactions # <<>>

\* C3: a miner's accumulator is the genesis set plus the outputs created minus
\* the outputs spent by the blocks it accepted.
C3_AccumulatorIsLedger ==
    \A m \in Miners :
        acc[m] = (Genesis \cup UNION {BlockCreated(accepted[m][i]) :
                                          i \in 1..Len(accepted[m])})
                 \ UNION {BlockSpent(accepted[m][i]) : i \in 1..Len(accepted[m])}

C3_Witness ==
    \E m \in Miners :
        /\ Len(accepted[m]) >= 2
        /\ \A i \in 1..Len(accepted[m]) : BlockSpent(accepted[m][i]) # {}
        /\ acc[m] # Genesis

\* Miner m has just validated a block forged from a state identical to its own
ValidatedFromForgeState ==
    /\ Validated
    /\ last.block.height = last.pre.block_height + 1
    /\ last.pre.acc = ForgeAcc(last.block)

\* C4 (as stated): once B has validated a block that A forged from a state
\* identical to B's, A and B hold equal accumulators and equal heights.
C4_ForgerAndValidatorEqual ==
    \A a \in Miners :
        (/\ ValidatedFromForgeState
         /\ a # last.miner
         /\ is_leader[a] /\ ~is_leader[last.miner]) =>
            /\ acc[a] = acc[last.miner]
            /\ block_height[a] = block_height[last.miner]

\* C4 (amended): a block forged from a state identical to B's is accepted by B,
\* which then holds the block's acc_new and height; two miners whose latest
\* accepted block is the same block hold equal accumulators and heights.
C4_ForgedBlockAccepted ==
    /\ ValidatedFromForgeState =>
           /\ last.outcome = "accept"
           /\ acc[last.miner] = last.block.acc_new
           /\ block_height[last.miner] = last.block.height
    /\ \A a, b \in Miners :
           (/\ accepted[a] # <<>> /\ accepted[b] # <<>>
            /\ Last(accepted[a]) = Last(accepted[b])) =>
               /\ acc[a] = acc[b]
               /\ block_height[a] = block_height[b]

\* B has accepted a block with transactions that the only leader A forged, and
\* A has accepted it too
C4_Witness ==
    /\ ValidatedFromForgeState /\ last.outcome = "accept"
    /\ last.block.transactions # <<>>
    /\ \E a \in Miners :
           /\ a # last.miner /\ is_leader[a] /\ ~is_leader[last.miner]
           /\ accepted[a] # <<>> /\ Last(accepted[a]) = last.block
           /\ acc[a] = acc[last.miner]

\* C5: forge_block on a pool holding a transaction whose witness does not
\* verify against the accumulator returns an error: no block is published and
\* accumulator, height and pool of the miner stay as they are.
C5_ForgeFailsOnBadWitness ==
    [][\A m \in Miners :
           (/\ last'.op = "forge" /\ last'.miner = m /\ last'.outcome # "panic"
            /\ HasBadWitness(m)) =>
               /\ last'.outcome = "err"
               /\ last'.block = NoBlock
               /\ block_channel' = block_channel
               /\ acc'[m] = acc[m]
               /\ block_height'[m] = block_height[m]
               /\ pending_transactions'[m] = pending_transactions[m]]_vars

\* forging has just failed on a pooled transaction whose output is already spent
C5_Witness ==
    /\ last.op = "forge" /\ last.outcome = "err"
    /\ \E t \in SeqToSet(pending_transactions[last.miner]) :
           \E ew \in SeqToSet(t.utxos_spent_with_witnesses) :
               ew[1] \notin acc[last.miner]
    /\ block_height[last.miner] >= 1

\* C6: the pool never holds a transaction twice; a delivered transaction is
\* appended when it is new and ignored when it is pooled already, so the pool
\* lists the distinct transactions in first-seen order; add_transaction leaves
\* accumulator and height alone.
C6_PoolDeduplicated ==
    /\ \A m \in Miners :
           \A i, j \in 1..Len(pending_transactions[m]) :
               i # j => pending_transactions[m][i] # pending_transactions[m][j]
    /\ (last.op = "add" /\ last.outcome # "panic") =>
           LET before == last.pre.pending_transactions
               after  == pending_transactions[last.miner]
           IN  /\ Len(after) = Cardinality(SeqToSet(before) \cup {last.tx})
               /\ SubSeq(after, 1, Len(before)) = before
               /\ Contains(after, last.tx)
               /\ acc[last.miner] = last.pre.acc
               /\ block_height[last.miner] = last.pre.block_height

\* a pool of two transactions has just been handed one of them again
C6_Witness ==
    /\ last.op = "add" /\ last.outcome = "duplicate"
    /\ Len(pending_transactions[last.miner]) = 2
    /\ last.tx = pending_transactions[last.miner][1]

\* C7: with several leaders a miner accepts at most one block per height; a
\* block at the next height that passes the assertions is accepted, and a
\* later block of a height already accepted is dropped at the gate, with the
\* state as before and no assertion run.
C7_OneBlockPerHeight ==
    /\ \A m \in Miners :
           \A i, j \in 1..Len(accepted[m]) :
               i # j => accepted[m][i].height # accepted[m][j].height
    /\ (/\ Validated
        /\ last.block.height = last.pre.block_height + 1
        /\ checks_pass(last.pre.acc, last.block)) =>
           /\ last.outcome = "accept"
           /\ Last(accepted[last.miner]) = last.block
    /\ (Validated /\ last.block.height <= last.pre.block_height) =>
           /\ last.outcome = "skip"
           /\ MinerState(last.miner) = last.pre
           /\ accepted[last.miner][last.block.height].height = last.block.height
           /\ ~poisoned[last.miner]

\* two leaders: a miner drops a block of another leader that has the height of
\* a different block it accepted, and that would not pass the assertions
C7_Witness ==
    /\ \A m \in Miners : is_leader[m]
    /\ Validated /\ last.outcome = "skip"
    /\ last.block.height <= block_height[last.miner]
    /\ accepted[last.miner][last.block.height] # last.block
    /\ accepted[last.miner][last.block.height].transactions
           # last.block.transactions
    /\ ~checks_pass(last.pre.acc, last.block)

\* The indices of the blocks of chain that hold transaction t
BlocksWith(chain, t) == {i \in 1..Len(chain) : Contains(chain[i].transactions, t)}

\* C8 (as stated): a transaction appears in at most one of the blocks forged
\* and in at most one block of the chain a miner accepts.
C8_ConsumedOnceAmongForged ==
    \A t \in tx_channel :
        /\ Cardinality({b \in block_channel : Contains(b.transactions, t)}) <= 1
        /\ \A m \in Miners : Cardinality(BlocksWith(accepted[m], t)) <= 1

\* C8 (amended): on the chain of blocks a miner accepts, a transaction of a
\* user appears in at most one block, and once in that block.
C8_ConsumedOncePerChain ==
    \A t \in tx_channel : \A m \in Miners :
        /\ Cardinality(BlocksWith(accepted[m], t)) <= 1
        /\ \A i \in BlocksWith(accepted[m], t) :
               Cardinality({k \in 1..Len(accepted[m][i].transactions) :
                                accepted[m][i].transactions[k] = t}) = 1

\* a miner that accepted a block with transaction t has just been handed a
\* different forged block that holds t as well
C8_Witness ==
    /\ Validated /\ last.outcome # "accept"
    /\ \E t \in tx_channel :
           /\ Contains(last.block.transactions, t)
           /\ \E i \in BlocksWith(accepted[last.miner], t) :
                  accepted[last.miner][i] # last.block

\* C9: a user builds its transaction only from a response whose request_id is
\* the correlation id of the round; a response with another id is not used:
\* the user drains the queue until it is empty, sends the request again with
\* the same id, and waits again.
C9_OnlyMatchingResponseUsed ==
    [][\A u \in Users :
           /\ pc[u] = "receive" => pc'[u] \in {"receive", "issue", "drain"}
           /\ (pc[u] = "receive" /\ pc'[u] = "issue") =>
                  /\ response'[u] = Head(response_queue[u])
                  /\ response'[u].request_id = witness_request_id[u]
           /\ (pc[u] = "receive" /\ pc'[u] = "drain") =>
                  /\ Head(response_queue[u]).request_id # witness_request_id[u]
                  /\ response'[u] = response[u]
           /\ pc[u] = "drain" =>
                  /\ pc'[u] \in {"drain", "request"}
                  /\ pc'[u] = "request" => response_queue[u] = <<>>
                  /\ response'[u] = response[u]
                  /\ my_tx'[u] = my_tx[u]
           /\ (pc[u] = "request" /\ pc'[u] # "request") =>
                  /\ pc'[u] = "receive"
                  /\ [user_id |-> u, request_id |-> witness_request_id[u],
                      utxos |-> utxos_to_spend[u]] \in request_channel'
           /\ pc[u] \in {"request", "receive", "drain", "issue"} =>
                  /\ witness_request_id'[u] = witness_request_id[u]
                  /\ utxos_to_spend'[u] = utxos_to_spend[u]
           /\ my_tx'[u] # my_tx[u] =>
                  /\ pc[u] = "issue"
                  /\ response[u].request_id = witness_request_id[u]
                  /\ my_tx'[u].utxos_spent_with_witnesses =
                         response[u].utxos_with_witnesses
                  /\ my_tx'[u] \in tx_channel']_vars

\* a user that received a response of another round, drained and resent its
\* request holds the matching response and is about to issue its transaction
C9_Witness ==
    \E u \in Users :
        /\ pc[u] = "issue" /\ resent[u]
        /\ response[u].request_id = witness_request_id[u]
        /\ \E r \in response_channel : r.request_id # witness_request_id[u]

\* C10: a user that has left the wait loop after issuing a transaction has had
\* that transaction included in an accepted block.
C10_NextRoundAfterConfirmation ==
    \A u \in Users :
        (my_tx[u] # NoTx /\ pc[u] # "confirm") => my_tx[u] \in confirmed

\* ---------------------------------------------------------------- C11
\* The outputs a transaction spends, as a set
SpentBy(t) == {sw[1] : sw \in SeqToSet(t.utxos_spent_with_witnesses)}

\* C11: when a user applies the update of the block that holds its own
\* transaction (deleted = the output it spent, added = the outputs it
\* created), the spent output is no longer in utxo_set, every created output
\* is in it, and every other output the user held before is still in it.
C11_UpdateRoundTrip ==
    [][\A u \in Users :
          (/\ pc[u] = "confirm"
           /\ pc'[u] = "select"
           /\ my_tx[u] \in confirmed
           /\ Head(update_queue[u]) = UpdateFor(u, my_tx[u]))
          => /\ SpentBy(my_tx[u]) \cap utxo_set'[u] = {}
             /\ SeqToSet(my_tx[u].utxos_created) \subseteq utxo_set'[u]
             /\ (utxo_set[u] \ SpentBy(my_tx[u])) \subseteq utxo_set'[u]]_vars

\* A user has applied the update of its own transaction of two created
\* outputs while it held another output
C11_Witness ==
    \E u \in Users :
        /\ pc[u] = "select"
        /\ my_tx[u] \in confirmed
        /\ Len(my_tx[u].utxos_created) = 2
        /\ SeqToSet(my_tx[u].utxos_created) \subseteq utxo_set[u]
        /\ SpentBy(my_tx[u]) \cap utxo_set[u] = {}
        /\ Cardinality(utxo_set[u]) = 3

\* ---------------------------------------------------------------- C12
\* The accumulator a miner held at height h, by the blocks it accepted
AccAt(chain, h) == IF h = 0 THEN Genesis ELSE chain[h].acc_new

\* Accumulator a and height h belong to the same block of the accepted chain
SameBlock(chain, a, h) == h <= Len(chain) /\ a = AccAt(chain, h)

\* C12: acc and block_height of a miner change only inside validate_block,
\* which holds the Mutex alone while it assigns them and empties the pool
\* before it gives the lock up; whenever no validate_block is under way the
\* two fields belong to the same block, and no other duty runs (forge_block
\* reads no state) while validate_block is between its assignments.
C12_StateChangesUnderLock ==
    [][\A m \in Miners :
          /\ (acc'[m] # acc[m] \/ block_height'[m] # block_height[m])
                => (lock[m] = {"validate"} /\ vpc[m] \in {"acc", "height"})
          /\ (vpc[m] = "pool" /\ vpc'[m] = "idle")
                => /\ acc'[m] = vblock[m].acc_new
                   /\ block_height'[m] = vblock[m].height
                   /\ pending_transactions'[m] = <<>>
          /\ vpc'[m] = "idle"
                => (block_height'[m] = Len(accepted'[m])
                    /\ SameBlock(accepted'[m], acc'[m], block_height'[m]))
          /\ vpc'[m] # "idle" => lock'[m] = {"validate"}
          /\ (last' # last /\ last'.miner = m /\ last'.op \in {"add", "forge"})
                => vpc[m] = "idle"
          /\ (last'.miner = m /\ last'.op = "forge" /\ last'.outcome # "panic")
                => SameBlock(accepted'[m], last'.pre.acc, last'.pre.block_height)]_vars

\* A validate_block has applied a block with a transaction, step by step,
\* and the leader has forged from the new state
C12_Witness ==
    /\ last.op = "forge"
    /\ last.outcome = "ok"
    /\ last.pre.block_height = 1
    /\ last.pre.acc # Genesis
    /\ vpc[last.miner] = "idle"
    /\ lock[last.miner] = {}

\* ---------------------------------------------------------------- C13
\* C13: when the validation thread of a miner handles a block at height
\* block_height + 1 that fails one of the three assertions, the miner's acc,
\* block_height and pool stay as they were and the validation thread ends;
\* a miner whose validation thread has ended accepts no block any more.
C13_FailedValidationHalts ==
    [][\A m \in Miners :
          /\ (/\ last' # last
              /\ last'.op = "validate"
              /\ last'.miner = m
              /\ last'.block.height = block_height[m] + 1
              /\ ~checks_pass(acc[m], last'.block))
                => /\ acc'[m] = acc[m]
                   /\ block_height'[m] = block_height[m]
                   /\ pending_transactions'[m] = pending_transactions[m]
                   /\ accepted'[m] = accepted[m]
                   /\ "validate" \notin alive'[m]
          /\ "validate" \notin alive[m]
                => /\ "validate" \notin alive'[m]
                   /\ accepted'[m] = accepted[m]
                   /\ acc'[m] = acc[m]
                   /\ block_height'[m] = block_height[m]]_vars

\* A block at the next height has just failed an assertion on a miner that
\* had accepted a block before
C13_Witness ==
    /\ last.op = "validate"
    /\ last.outcome = "panic"
    /\ last.block.height = last.pre.block_height + 1
    /\ ~checks_pass(last.pre.acc, last.block)
    /\ MinerState(last.miner) = last.pre
    /\ accepted[last.miner] # <<>>
    /\ "validate" \notin alive[last.miner]

\* ---------------------------------------------------------------- C14
\* C14: when forge_block of a leader fails, the tick publishes no block, the
\* block creation loop stays alive with the Mutex intact, so that its next
\* tick calls forge_block again, and the transaction thread and the
\* validation thread of the miner are still running and can take the lock.
C14_ForgeFailureIsSurvived ==
    [][\A m \in Miners :
          (last'.op = "forge" /\ last'.miner = m /\ last'.outcome = "err")
          => /\ block_channel' = block_channel
             /\ alive'[m] = alive[m]
             /\ alive'[m] = Duties
             /\ is_leader'[m]
             /\ ~poisoned'[m]
             /\ MinerState(m)' = MinerState(m)]_vars

\* forge_block has just failed on a leader whose pool holds a transaction
\* with a stale witness
C14_Witness ==
    /\ last.op = "forge"
    /\ last.outcome = "err"
    /\ HasBadWitness(last.miner)
    /\ alive[last.miner] = Duties
    /\ ~poisoned[last.miner]

\* ---------------------------------------------------------------- C15
\* C15: under reliable delivery and fair scheduling, a user that waits in the
\* witness loop eventually gets the response to its request and broadcasts
\* its transaction, also when other responses arrive on the channel.
C15_WitnessLoopTerminates ==
    \A u \in Users : (pc[u] = "receive") ~> (pc[u] = "confirm")

\* ---------------------------------------------------------------- C16
\* C16: any two miners with the same block_height hold equal accumulators,
\* also when a leader forges several blocks for one height or when several
\* miners are leaders.
C16_Agreement ==
    \A a, b \in Miners : block_height[a] = block_height[b] => acc[a] = acc[b]

\* ---------------------------------------------------------------- C18
\* C18: whenever validate_block accepts a block and clears the pool, every
\* transaction it removes from the pool is contained in the accepted block.
C18_ClearedTransactionsIncluded ==
    (Validated /\ last.outcome = "accept")
    => SeqToSet(last.pre.pending_transactions) \subseteq
           SeqToSet(last.block.transactions)

\* ---------------------------------------------------------------- C19
\* C19: the drain loop throws away only responses whose request_id differs
\* from the correlation id of the round; a response that matches it is never
\* thrown away.
C19_DrainKeepsMatching ==
    [][\A u \in Users :
          (/\ pc[u] = "drain"
           /\ response_queue[u] # <<>>
           /\ response_queue'[u] = Tail(response_queue[u]))
          => Head(response_queue[u]).request_id # witness_request_id[u]]_vars

\* ---------------------------------------------------------------- C17
\* The block miner m accepted at height h, NoBlock when it has not reached h
AcceptedAt(m, h) == IF Len(accepted[m]) >= h THEN accepted[m][h] ELSE NoBlock

\* C17: every block a leader accepts at height h is eventually accepted at
\* height h by every other miner, also when blocks are delivered out of
\* order.
C17_EveryMinerCatchesUp ==
    \A l \in Miners, m \in Miners, h \in 1..MaxBlocks :
        (is_leader[l] /\ AcceptedAt(l, h) # NoBlock)
        ~> (AcceptedAt(m, h) # NoBlock /\ AcceptedAt(m, h) = AcceptedAt(l, h))

\* ---------------------------------------------------------------- C20
\* C20: with a single leader a failure of forge_block is not permanent: the
\* transaction with the stale witness eventually leaves the leader's pool
\* (and the leader then forges again).
C20_ForgeFailureNotPermanent ==
    \A m \in Miners :
        (is_leader[m] /\ last.op = "forge" /\ last.miner = m /\ last.outcome = "err")
        ~> ~HasBadWitness(m)

====
